---- MODULE Spec2Model ----
(***************************************************************************)
(* The blockchain ledger of streamlit_app.py: Transaction, Block,          *)
(* BlockchainLedger and process_transactions.                              *)
(*                                                                         *)
(* Text is a sequence of tokens: a decimal digit, a literal of an f-string *)
(* or the value of a string field.  Python objects live in `heap` and the  *)
(* lists of a block and of the ledger hold references (keys of `heap`), so *)
(* a Transaction appended to a block and to all_transactions is one object.*)
(***************************************************************************)
EXTENDS Integers, Sequences, FiniteSets, TLC

\* ---------------------------------------------------------------- bounds
MaxRows == 3        \* rows of the DataFrame handed to process_transactions
MaxBlockSize == 2   \* block_size ranges over -1 .. MaxBlockSize
MaxClock == 2       \* time.time() ranges over 0 .. MaxClock
MaxChain == 2       \* direct add_block calls on one ledger
MaxBatch == 2       \* transactions in one direct add_block call

VARIABLES
    heap,              \* Transaction objects, by reference
    chain,             \* BlockchainLedger.chain
    all_transactions,  \* BlockchainLedger.all_transactions (references)
    clock,             \* the last value time.time() returned
    df,                \* the DataFrame: its columns and its rows
    block_size,        \* process_transactions' block_size
    i,                 \* rows consumed by the for loop
    txn_batch,         \* process_transactions' txn_batch (references)
    pc,                \* "loop", "done" (process_transactions), "api" (direct calls)
    error,             \* the exception that escaped process_transactions, or "none"
    attack             \* the alteration made behind the ledger's back, or "none"

vars == <<heap, chain, all_transactions, clock, df, block_size, i, txn_batch,
          pc, error, attack>>

\* ------------------------------------------------------------------ text
DigitChars == <<"0", "1", "2", "3", "4", "5", "6", "7", "8", "9">>

RECURSIVE IntStr(_)
\* str(n) of a non-negative int
IntStr(n) ==
    IF n < 10 THEN <<DigitChars[n + 1]>>
    ELSE IntStr(n \div 10) \o <<DigitChars[(n % 10) + 1]>>

\* str(x) of a float holding a whole number: "5.0"
FloatStr(x) == IntStr(x) \o <<".", "0">>

IsDigit(c) == \E d \in 1..10 : DigitChars[d] = c

DigitVal(c) == (CHOOSE d \in 1..10 : DigitChars[d] = c) - 1

RECURSIVE ParseDigits(_)
ParseDigits(s) ==
    IF Len(s) = 0 THEN 0
    ELSE 10 * ParseDigits(SubSeq(s, 1, Len(s) - 1)) + DigitVal(s[Len(s)])

\* a string of decimal digits, the numeric text float() and int() accept here
IsNumeral(s) == Len(s) > 0 /\ \A k \in 1..Len(s) : IsDigit(s[k])

\* ----------------------------------------------------- cells of a DataFrame
IntCell(n) == [t |-> "int", n |-> n, s |-> <<>>]
StrCell(s) == [t |-> "str", n |-> 0, s |-> s]

\* float(cell): the value, or ValueError
FloatOf(cell) ==
    IF cell.t = "int" THEN [ok |-> TRUE, v |-> cell.n]
    ELSE IF IsNumeral(cell.s) THEN [ok |-> TRUE, v |-> ParseDigits(cell.s)]
    ELSE [ok |-> FALSE, v |-> 0]

\* int(cell): the value, or ValueError
IntOf(cell) ==
    IF cell.t = "int" THEN [ok |-> TRUE, v |-> cell.n]
    ELSE IF IsNumeral(cell.s) THEN [ok |-> TRUE, v |-> ParseDigits(cell.s)]
    ELSE [ok |-> FALSE, v |-> 0]

Columns == {"Sender_account", "Receiver_account", "Amount", "Payment_currency",
            "Is_laundering", "Payment_type"}

MkRow(s, r, a, c, l, p) ==
    [Sender_account |-> s, Receiver_account |-> r, Amount |-> a,
     Payment_currency |-> c, Is_laundering |-> l, Payment_type |-> p]

\* the rows a DataFrame is drawn from: three well-formed ones, one with a
\* non-numeric amount, one with a non-numeric flag
RowKinds ==
    { MkRow(1, 2, IntCell(5), "USD", IntCell(1), "Cash"),
      MkRow(2, 3, StrCell(<<"1", "2">>), "EUR", IntCell(0), "Wire"),
      MkRow(3, 3, IntCell(5), "USD", StrCell(<<"2">>), "Wire"),
      MkRow(3, 1, StrCell(<<"a", "b", "c">>), "USD", IntCell(0), "Cash"),
      MkRow(1, 3, IntCell(5), "EUR", StrCell(<<"x">>), "Wire") }

\* the DataFrame either has every column or lacks the Amount column
ColumnSets == {Columns, Columns \ {"Amount"}}

\* ----------------------------------------------------------- Transaction
\* Transaction.__init__
Transaction(sender, receiver, amount, currency, is_laundering, payment_type) ==
    [sender |-> sender, receiver |-> receiver, amount |-> amount,
     currency |-> currency, is_laundering |-> (is_laundering # 0),
     payment_type |-> payment_type]

\* __str__ with the payment type left out of the text
TxnStr_NoPaymentType(txn) ==
    LET status == IF txn.is_laundering THEN "Suspicious" ELSE "Normal"
    IN  IntStr(txn.sender) \o <<" -> ">> \o IntStr(txn.receiver) \o <<" | ">>
        \o FloatStr(txn.amount) \o <<" ">> \o <<txn.currency>> \o <<" | ">>
        \o <<status>>

\* Transaction.__str__ (the status markers without their emoji)
TxnStr(txn) ==
    LET status == IF txn.is_laundering THEN "Suspicious" ELSE "Normal"
    IN  IntStr(txn.sender) \o <<" -> ">> \o IntStr(txn.receiver) \o <<" | ">>
        \o FloatStr(txn.amount) \o <<" ">> \o <<txn.currency>> \o <<" | ">>
        \o <<txn.payment_type>> \o <<" | ">> \o <<status>>

\* ------------------------------------------------------------------ Block
\* hashlib.sha256(...).hexdigest(), collision-free: the digest of s is s
\* framed as one fixed-width unit of text
Sha256(s) == <<"[">> \o s \o <<"]">>

RECURSIVE JoinTxns(_, _)
\* "".join(str(txn) for txn in transactions)
JoinTxns(transactions, h) ==
    IF Len(transactions) = 0 THEN <<>>
    ELSE TxnStr(h[Head(transactions)]) \o JoinTxns(Tail(transactions), h)

\* Block.calculate_hash
calculate_hash(block, h) ==
    LET txn_str == JoinTxns(block.transactions, h)
        block_string == IntStr(block.index) \o FloatStr(block.timestamp)
                        \o txn_str \o block.previous_hash
    IN  Sha256(block_string)

\* Block.__init__, with time.time() returning now
Block(index, transactions, previous_hash, now, h) ==
    LET self == [index |-> index, timestamp |-> now, transactions |-> transactions,
                 previous_hash |-> previous_hash, hash |-> <<>>]
    IN  [self EXCEPT !.hash = calculate_hash(self, h)]

\* -------------------------------------------------------- BlockchainLedger
\* BlockchainLedger.create_genesis_block
create_genesis_block(now, h) == Block(0, <<>>, <<"0">>, now, h)

\* BlockchainLedger.__init__
BlockchainLedger(now, h) ==
    [chain |-> <<create_genesis_block(now, h)>>, all_transactions |-> <<>>]

\* get_latest_block returning self.chain[0]
get_first_block(ledger) == ledger.chain[1]

\* BlockchainLedger.get_latest_block
get_latest_block(ledger) == ledger.chain[Len(ledger.chain)]

\* add_block assigning all_transactions instead of extending it
add_block_Assign(ledger, transactions, now, h) ==
    LET index == Len(ledger.chain)
        prev_hash == ledger.chain[Len(ledger.chain)].hash
        new_block == Block(index, transactions, prev_hash, now, h)
    IN  [chain |-> Append(ledger.chain, new_block),
         all_transactions |-> transactions]

\* BlockchainLedger.add_block, with time.time() returning now
add_block(ledger, transactions, now, h) ==
    LET index == Len(ledger.chain)
        prev_hash == get_latest_block(ledger).hash
        new_block == Block(index, transactions, prev_hash, now, h)
    IN  [chain |-> Append(ledger.chain, new_block),
         all_transactions |-> ledger.all_transactions \o transactions]

RECURSIVE ValidFrom(_, _, _)
\* the for loop of is_chain_valid from list position k (position 1 is genesis)
ValidFrom(c, h, k) ==
    IF k > Len(c) THEN TRUE
    ELSE IF c[k].hash # calculate_hash(c[k], h) \/ c[k].previous_hash # c[k - 1].hash
         THEN FALSE
         ELSE ValidFrom(c, h, k + 1)

\* BlockchainLedger.is_chain_valid
is_chain_valid == ValidFrom(chain, heap, 2)

Matches(txn, account_id) == txn.sender = account_id \/ txn.receiver = account_id

\* search_by_account looking at the sender alone
search_by_sender(account_id) ==
    SelectSeq(all_transactions, LAMBDA ref : heap[ref].sender = account_id)

\* BlockchainLedger.search_by_account
search_by_account(account_id) ==
    SelectSeq(all_transactions, LAMBDA ref : Matches(heap[ref], account_id))

RECURSIVE SumFlags(_)
\* sum(txn.is_laundering for txn in ...)
SumFlags(refs) ==
    IF Len(refs) = 0 THEN 0
    ELSE (IF heap[Head(refs)].is_laundering THEN 1 ELSE 0) + SumFlags(Tail(refs))

\* summary counting the blocks without genesis
summary_NoGenesis ==
    LET laundering == SumFlags(all_transactions)
        total == Len(all_transactions)
    IN  [Total_Transactions |-> total, Suspicious |-> laundering,
         Normal |-> total - laundering, Total_Blocks |-> Len(chain) - 1]

\* BlockchainLedger.summary
summary ==
    LET laundering == SumFlags(all_transactions)
        total == Len(all_transactions)
    IN  [Total_Transactions |-> total, Suspicious |-> laundering,
         Normal |-> total - laundering, Total_Blocks |-> Len(chain)]

Ledger == [chain |-> chain, all_transactions |-> all_transactions]

\* time.time() does not run backwards
Ticks == {t \in {clock, clock + 1} : t <= MaxClock}


\* ---------------------------------------------------- process_transactions
\* the Transaction(...) call of process_transactions on one row: the cells are
\* read and converted in argument order, and the first failure is raised
Construct(frame, row) ==
    LET amount == FloatOf(row.Amount)
        flag == IntOf(row.Is_laundering)
        txn == Transaction(row.Sender_account, row.Receiver_account, amount.v,
                           row.Payment_currency, flag.v, row.Payment_type)
        raised(exc) == [exc |-> exc, txn |-> txn]
    IN  IF "Sender_account" \notin frame.columns THEN raised("KeyError")
        ELSE IF "Receiver_account" \notin frame.columns THEN raised("KeyError")
        ELSE IF "Amount" \notin frame.columns THEN raised("KeyError")
        ELSE IF ~amount.ok THEN raised("ValueError")
        ELSE IF "Payment_currency" \notin frame.columns THEN raised("KeyError")
        ELSE IF "Is_laundering" \notin frame.columns THEN raised("KeyError")
        ELSE IF ~flag.ok THEN raised("ValueError")
        ELSE IF "Payment_type" \notin frame.columns THEN raised("KeyError")
        ELSE raised("none")

\* except ValueError
CaughtValueErrorOnly(exc) == exc = "ValueError"

\* except Exception: every exception of the try body is caught
Caught(exc) == TRUE

\* len(txn_batch) > block_size
BatchOverfull(batch, size) == Len(batch) > size

\* len(txn_batch) >= block_size
BatchFull(batch, size) == Len(batch) >= size

Frames ==
    { [columns |-> c, rows |-> r] :
        c \in ColumnSets, r \in UNION {[1..n -> RowKinds] : n \in 0..MaxRows} }

NoAttack == [kind |-> "none", block |-> 0, field |-> "none"]

\* process_transactions(df, block_size) after `ledger = BlockchainLedger()`
\* and `txn_batch = []`
Init ==
    /\ df \in Frames
    /\ block_size \in -1..MaxBlockSize
    /\ clock = 0
    /\ heap = <<>>
    /\ chain = BlockchainLedger(0, <<>>).chain
    /\ all_transactions = BlockchainLedger(0, <<>>).all_transactions
    /\ i = 0
    /\ txn_batch = <<>>
    /\ pc = "loop"
    /\ error = "none"
    /\ attack = NoAttack

\* one pass of the for loop in which the row becomes a Transaction
IngestRow ==
    /\ pc = "loop"
    /\ i < Len(df.rows)
    /\ LET made == Construct(df, df.rows[i + 1])
           ref == i + 1
           h == [k \in DOMAIN heap \cup {ref} |->
                    IF k = ref THEN made.txn ELSE heap[k]]
           batch == Append(txn_batch, ref)
       IN  /\ made.exc = "none"
           /\ heap' = h
           /\ i' = i + 1
           /\ IF BatchFull(batch, block_size)
              THEN \E now \in Ticks :
                     LET ledger == add_block(Ledger, batch, now, h)
                     IN  /\ chain' = ledger.chain
                         /\ all_transactions' = ledger.all_transactions
                         /\ clock' = now
                         /\ txn_batch' = <<>>
              ELSE /\ txn_batch' = batch
                   /\ UNCHANGED <<chain, all_transactions, clock>>
    /\ UNCHANGED <<df, block_size, pc, error, attack>>

\* one pass of the for loop in which the Transaction(...) call raises
SkipRow ==
    /\ pc = "loop"
    /\ i < Len(df.rows)
    /\ LET made == Construct(df, df.rows[i + 1])
       IN  /\ made.exc # "none"
           /\ IF Caught(made.exc)
              THEN /\ i' = i + 1
                   /\ UNCHANGED <<pc, error>>
              ELSE /\ pc' = "raised"
                   /\ error' = made.exc
                   /\ UNCHANGED i
    /\ UNCHANGED <<heap, chain, all_transactions, clock, df, block_size,
                   txn_batch, attack>>

\* after the loop: `if txn_batch: ledger.add_block(txn_batch)`, `return ledger`
Finish ==
    /\ pc = "loop"
    /\ i = Len(df.rows)
    /\ IF Len(txn_batch) > 0
       THEN \E now \in Ticks :
              LET ledger == add_block(Ledger, txn_batch, now, heap)
              IN  /\ chain' = ledger.chain
                  /\ all_transactions' = ledger.all_transactions
                  /\ clock' = now
       ELSE UNCHANGED <<chain, all_transactions, clock>>
    /\ pc' = "done"
    /\ UNCHANGED <<heap, df, block_size, i, txn_batch, error, attack>>

Next == IngestRow \/ SkipRow \/ Finish

Spec == Init /\ [][Next]_vars

\* ------------------------------------------------- direct add_block calls
\* the Transaction objects a caller of add_block holds
Pool ==
    <<Transaction(1, 2, 5, "USD", 1, "Cash"),
      Transaction(2, 3, 12, "EUR", 0, "Wire"),
      Transaction(3, 3, 5, "USD", 2, "Wire")>>

Batches == UNION {[1..n -> DOMAIN Pool] : n \in 0..MaxBatch}

\* ledger = BlockchainLedger()
InitLedger ==
    /\ df = [columns |-> Columns, rows |-> <<>>]
    /\ block_size = 1
    /\ clock = 0
    /\ heap = Pool
    /\ chain = BlockchainLedger(0, Pool).chain
    /\ all_transactions = BlockchainLedger(0, Pool).all_transactions
    /\ i = 0
    /\ txn_batch = <<>>
    /\ pc = "api"
    /\ error = "none"
    /\ attack = NoAttack

\* ledger.add_block(transactions), with time.time() returning now
AddBlockCall(transactions, now) ==
    /\ pc = "api"
    /\ Len(chain) <= MaxChain
    /\ LET ledger == add_block(Ledger, transactions, now, heap)
       IN  /\ chain' = ledger.chain
           /\ all_transactions' = ledger.all_transactions
           /\ clock' = now
    /\ UNCHANGED <<heap, df, block_size, i, txn_batch, pc, error, attack>>

AddBlock == \E transactions \in Batches, now \in Ticks : AddBlockCall(transactions, now)

NextLedger == AddBlock

SpecLedger == InitLedger /\ [][NextLedger]_vars


\* ------------------------------------- alteration of a finished ledger
\* Python attributes are public: after process_transactions has returned,
\* any holder of the ledger can assign to a field of a Transaction or of a
\* Block.  Each action below is one such alteration, made once.
Fields == {"sender", "receiver", "amount", "currency", "payment_type", "is_laundering"}

\* the values a field of a Transaction ranges over
FieldValues(field) ==
    CASE field \in {"sender", "receiver"} -> 1..3
      [] field = "amount" -> {5, 12}
      [] field = "currency" -> {"USD", "EUR"}
      [] field = "payment_type" -> {"Cash", "Wire"}
      [] field = "is_laundering" -> BOOLEAN

\* the digests found in the ledger, and the genesis sentinel
Digests == {<<"0">>} \cup {chain[k].hash : k \in 1..Len(chain)}

\* chain[b].transactions[n].<field> = v
MutateField ==
    /\ pc = "done" /\ attack.kind = "none"
    /\ \E b \in 2..Len(chain) : \E n \in 1..Len(chain[b].transactions) :
       \E field \in Fields :
         LET ref == chain[b].transactions[n]
         IN  \E v \in FieldValues(field) \ {heap[ref][field]} :
               /\ heap' = [heap EXCEPT ![ref][field] = v]
               /\ attack' = [kind |-> "mutate", block |-> b, field |-> field]
    /\ UNCHANGED <<chain, all_transactions, clock, df, block_size, i, txn_batch,
                   pc, error>>

\* chain[b].transactions[n].<field> = v; chain[b].hash = chain[b].calculate_hash()
MutateAndReseal ==
    /\ pc = "done" /\ attack.kind = "none"
    /\ \E b \in 2..Len(chain) : \E n \in 1..Len(chain[b].transactions) :
       \E field \in Fields :
         LET ref == chain[b].transactions[n]
         IN  \E v \in FieldValues(field) \ {heap[ref][field]} :
               LET h == [heap EXCEPT ![ref][field] = v]
               IN  /\ heap' = h
                   /\ chain' = [chain EXCEPT ![b].hash = calculate_hash(chain[b], h)]
                   /\ attack' = [kind |-> "reseal", block |-> b, field |-> field]
    /\ UNCHANGED <<all_transactions, clock, df, block_size, i, txn_batch, pc, error>>

\* chain[b].hash = d
OverwriteHash ==
    /\ pc = "done" /\ attack.kind = "none"
    /\ \E b \in 1..Len(chain) : \E d \in Digests \ {chain[b].hash} :
         /\ chain' = [chain EXCEPT ![b].hash = d]
         /\ attack' = [kind |-> "hash", block |-> b, field |-> "hash"]
    /\ UNCHANGED <<heap, all_transactions, clock, df, block_size, i, txn_batch,
                   pc, error>>

\* chain[b].previous_hash = d
OverwritePrevious ==
    /\ pc = "done" /\ attack.kind = "none"
    /\ \E b \in 1..Len(chain) : \E d \in Digests \ {chain[b].previous_hash} :
         /\ chain' = [chain EXCEPT ![b].previous_hash = d]
         /\ attack' = [kind |-> "previous", block |-> b, field |-> "previous_hash"]
    /\ UNCHANGED <<heap, all_transactions, clock, df, block_size, i, txn_batch,
                   pc, error>>

\* chain[b].timestamp = t
AlterTimestamp ==
    /\ pc = "done" /\ attack.kind = "none"
    /\ \E b \in 1..Len(chain) : \E t \in (0..MaxClock) \ {chain[b].timestamp} :
         /\ chain' = [chain EXCEPT ![b].timestamp = t]
         /\ attack' = [kind |-> "timestamp", block |-> b, field |-> "timestamp"]
    /\ UNCHANGED <<heap, all_transactions, clock, df, block_size, i, txn_batch,
                   pc, error>>

NextTamper ==
    \/ IngestRow \/ SkipRow \/ Finish
    \/ AlterTimestamp \/ MutateField \/ MutateAndReseal \/ OverwriteHash
    \/ OverwritePrevious

\* process_transactions called with a positive block_size, as the application
\* calls it (block_size=100), then one alteration of the ledger it returned
InitTamper == Init /\ block_size >= 1

SpecTamper == InitTamper /\ [][NextTamper]_vars


\* ================================================================ claims

\* ---- vocabulary of the claims, stated without the code's operators
DigitSet == {"0", "1", "2", "3", "4", "5", "6", "7", "8", "9"}

\* the cell holds a number or the text of one
NumericCell(cell) ==
    \/ cell.t = "int"
    \/ cell.t = "str" /\ cell.s # <<>> /\ {cell.s[k] : k \in 1..Len(cell.s)} \subseteq DigitSet

\* row k of the DataFrame has every field, a numeric amount and a numeric flag
ValidRow(k) ==
    /\ Columns \subseteq df.columns
    /\ NumericCell(df.rows[k].Amount)
    /\ NumericCell(df.rows[k].Is_laundering)

ValidRows == {k \in 1..Len(df.rows) : ValidRow(k)}

Occurrences(seq, x) == Cardinality({p \in 1..Len(seq) : seq[p] = x})

BlocksHolding(x) ==
    {b \in 1..Len(chain) : Occurrences(chain[b].transactions, x) > 0}

RECURSIVE ConcatBlocks(_)
ConcatBlocks(c) ==
    IF Len(c) = 0 THEN <<>> ELSE ConcatBlocks(SubSeq(c, 1, Len(c) - 1)) \o c[Len(c)].transactions

RECURSIVE SumBlockSizes(_)
SumBlockSizes(c) ==
    IF Len(c) = 0 THEN 0 ELSE Len(Head(c).transactions) + SumBlockSizes(Tail(c))

\* C1: after one field of one transaction of a non-genesis block (the last
\* block included) of a ledger built by process_transactions is changed, the
\* stored hashes being left as they were, is_chain_valid() recomputes the
\* block's hash and returns false.
C1_TamperDetected == attack.kind = "mutate" => ~is_chain_valid

C1_Witness ==
    /\ attack.kind = "mutate"
    /\ Len(chain) >= 3
    /\ attack.block = Len(chain)
    /\ attack.field = "is_laundering"
    /\ ~is_chain_valid

\* C2: add_block([]) leaves the length of the chain and the length of
\* all_transactions unchanged.
C2_EmptyBatchNoOp ==
    [][(\E now \in Ticks : AddBlockCall(<<>>, now))
         => /\ Len(chain') = Len(chain)
            /\ Len(all_transactions') = Len(all_transactions)]_vars

\* C3: the ledger process_transactions returns for a non-empty input and a
\* positive block size passes is_chain_valid().
C3_FreshLedgerValid ==
    (pc = "done" /\ Len(df.rows) > 0 /\ block_size >= 1) => is_chain_valid

C3_Witness ==
    /\ pc = "done"
    /\ block_size >= 1
    /\ Len(chain) >= 3
    /\ is_chain_valid

\* C4: no exception escapes process_transactions, and in the ledger it
\* returns every valid row is one Transaction, held once in all_transactions
\* and once in one block, in input order, while every other row is absent.
C4_ExactlyOnce ==
    /\ pc # "raised" /\ error = "none"
    /\ pc = "done" =>
         /\ \A k \in 1..Len(df.rows) :
              IF ValidRow(k)
              THEN /\ Occurrences(all_transactions, k) = 1
                   /\ Cardinality(BlocksHolding(k)) = 1
                   /\ \A b \in BlocksHolding(k) : Occurrences(chain[b].transactions, k) = 1
                   /\ heap[k].sender = df.rows[k].Sender_account
                   /\ heap[k].receiver = df.rows[k].Receiver_account
                   /\ heap[k].currency = df.rows[k].Payment_currency
                   /\ heap[k].payment_type = df.rows[k].Payment_type
              ELSE /\ Occurrences(all_transactions, k) = 0
                   /\ BlocksHolding(k) = {}
                   /\ k \notin DOMAIN heap
         /\ Len(all_transactions) = Cardinality(ValidRows)
         /\ \A p, q \in 1..Len(all_transactions) :
              p < q => all_transactions[p] < all_transactions[q]
         /\ ConcatBlocks(chain) = all_transactions

C4_Witness ==
    /\ pc = "done"
    /\ Len(df.rows) >= 3
    /\ ValidRow(1) /\ ~ValidRow(2) /\ ValidRow(3)
    /\ df.rows[1] = df.rows[3]
    /\ all_transactions = <<1, 3>>

\* C5: for a positive block size B and V > 0 valid rows the chain is genesis
\* plus ceil(V / B) blocks, every block between genesis and the last holds B
\* transactions, and the last holds V mod B, or B when B divides V.
C5_Batching ==
    LET V == Cardinality(ValidRows)
        B == block_size
    IN  (pc = "done" /\ B >= 1 /\ V > 0) =>
          /\ Len(chain) = 1 + ((V + B - 1) \div B)
          /\ \A b \in 2..(Len(chain) - 1) : Len(chain[b].transactions) = B
          /\ Len(chain[Len(chain)].transactions) = (IF V % B = 0 THEN B ELSE V % B)

C5_Witness ==
    /\ pc = "done"
    /\ block_size = 2
    /\ Cardinality(ValidRows) = 3
    /\ Len(chain) = 3
    /\ Len(chain[3].transactions) = 1

\* C6: a block size of zero or less is rejected with a ConfigurationError:
\* process_transactions does not return a ledger for it.
C6_InvalidBatchSizeRejected ==
    (block_size <= 0 /\ pc # "loop") => (pc = "raised" /\ error = "ConfigurationError")

\* C7: is_chain_valid() is true exactly when every block after genesis stores
\* the digest recomputed from its own fields and stores, as previous_hash, the
\* recomputed digest of the block before it.
C7_VerifyIffRecomputed ==
    is_chain_valid <=>
      \A k \in 2..Len(chain) :
        /\ chain[k].hash = calculate_hash(chain[k], heap)
        /\ chain[k].previous_hash = calculate_hash(chain[k - 1], heap)

\* C8: search_by_account(id) is the subsequence of all_transactions whose
\* sender or receiver is id: every match, duplicates kept, in ingestion order,
\* and nothing else.
C8_SearchIsSubsequence ==
    \A id \in 1..4 :
      LET result == search_by_account(id)
          hit(q) == heap[all_transactions[q]].sender = id
                    \/ heap[all_transactions[q]].receiver = id
          hits == {q \in 1..Len(all_transactions) : hit(q)}
          nth(p) == CHOOSE q \in hits : Cardinality({r \in hits : r <= q}) = p
      IN  /\ Len(result) = Cardinality(hits)
          /\ \A p \in 1..Len(result) : result[p] = all_transactions[nth(p)]

C8_Witness ==
    /\ Len(search_by_account(3)) >= 2
    /\ Len(search_by_account(3)) < Len(all_transactions)
    /\ Occurrences(search_by_account(3), 3) = 2
    /\ heap[all_transactions[1]].sender # 3 /\ heap[all_transactions[1]].receiver # 3

\* C9: summary() reports Total Transactions = len(all_transactions),
\* Suspicious = the number of transactions with is_laundering set,
\* Suspicious + Normal = Total Transactions and Total Blocks = len(chain).
C9_Summary ==
    /\ summary.Total_Transactions = Len(all_transactions)
    /\ summary.Suspicious + summary.Normal = summary.Total_Transactions
    /\ summary.Suspicious =
         Cardinality({p \in 1..Len(all_transactions) : heap[all_transactions[p]].is_laundering})
    /\ summary.Total_Blocks = Len(chain)

C9_Witness ==
    /\ Len(chain) = 3
    /\ summary.Suspicious >= 2
    /\ summary.Normal >= 1

====
